---------------------------- MODULE Spec2Model ----------------------------
(***************************************************************************)
(* LPT (Longest Processing Time) scheduling and its "optimized" wrapper,   *)
(* modelled from src/lpt.py (class LPT) and src/optimized_lpt.py (class    *)
(* OptimizedLPT).                                                          *)
(*                                                                         *)
(* One behaviour is one invocation: a caller builds LPT(jobs, processors)  *)
(* or OptimizedLPT(jobs, processors) and calls run().  Python lists are    *)
(* TLA+ sequences, so processor index k of the source is index k+1 here.   *)
(* Job lengths are Python ints; the float() conversions in                 *)
(* _get_optimal_processors are exact for them and ceil(total / maxjob) is  *)
(* modelled by exact integer ceiling division.                             *)
(***************************************************************************)
EXTENDS Integers, Sequences, FiniteSets, Bags, TLC

\* ------------------------------------------------------------------ bounds
\* Inputs of the general specification Spec.
MaxLen == 4
MaxJob == 2
NegJob == 1
MaxProc == 3
\* Inputs of the specification SpecBound (approximation bound of LPT).
BoundLen == 5
BoundJob == 3
BoundProc == 2

VARIABLES
    op,                 \* entry point: "lpt" (LPT.run) or "opt" (OptimizedLPT.run)
    jobs,               \* self.jobs: the caller's job list
    processors,         \* the caller's processor count
    pc,                 \* position of the invocation
    lpt_processors,     \* LPT.processors of the LPT instance that runs
    optimal_processors, \* local of OptimizedLPT.run
    sorted_jobs,        \* local of lpt_algorithm
    loads,              \* local of lpt_algorithm, later the returned loads
    scheduled_jobs,     \* local of lpt_algorithm, later the returned bins
    done_jobs,          \* how many of sorted_jobs the for loop has consumed
    raised              \* the exception that ended the invocation, or "none"

vars == <<op, jobs, processors, pc, lpt_processors, optimal_processors,
          sorted_jobs, loads, scheduled_jobs, done_jobs, raised>>

\* ----------------------------------------------------------- pure helpers
RECURSIVE SumSeq(_)
\* Python sum() of a list of ints.
SumSeq(s) == IF s = <<>> THEN 0 ELSE Head(s) + SumSeq(Tail(s))

\* Python max() of a non-empty list.
MaxSeq(s) == CHOOSE x \in {s[k] : k \in 1..Len(s)} :
                 \A k \in 1..Len(s) : s[k] <= x

\* Python min() of a non-empty list.
MinSeq(s) == CHOOSE x \in {s[k] : k \in 1..Len(s)} :
                 \A k \in 1..Len(s) : x <= s[k]

\* Insert x into the non-increasing sequence t behind every element >= x
\* (equal elements keep their input order: the sort is stable).
RECURSIVE InsertDesc(_, _)
InsertDesc(x, t) ==
    IF t = <<>> THEN <<x>>
    ELSE IF Head(t) >= x THEN <<Head(t)>> \o InsertDesc(x, Tail(t))
    ELSE <<x>> \o t

RECURSIVE InsertionSortDesc(_, _)
InsertionSortDesc(acc, rest) ==
    IF rest = <<>> THEN acc
    ELSE InsertionSortDesc(InsertDesc(Head(rest), acc), Tail(rest))

\* Mutant: reverse=True forgotten, the jobs come out in ascending order.
RECURSIVE InsertAsc(_, _)
InsertAsc(x, t) ==
    IF t = <<>> THEN <<x>>
    ELSE IF Head(t) <= x THEN <<Head(t)>> \o InsertAsc(x, Tail(t))
    ELSE <<x>> \o t

RECURSIVE InsertionSortAsc(_, _)
InsertionSortAsc(acc, rest) ==
    IF rest = <<>> THEN acc
    ELSE InsertionSortAsc(InsertAsc(Head(rest), acc), Tail(rest))

SortedAscending(s) == InsertionSortAsc(<<>>, s)

\* Mutant: duplicates dropped while sorting, as sorted(set(jobs), reverse=True).
RECURSIVE DropDuplicates(_)
DropDuplicates(s) ==
    IF Len(s) <= 1 THEN s
    ELSE IF s[1] = s[2] THEN DropDuplicates(Tail(s))
    ELSE <<s[1]>> \o DropDuplicates(Tail(s))

SortedDistinct(s) == DropDuplicates(InsertionSortDesc(<<>>, s))

\* sorted(self.jobs, reverse=True)
SortedReverse(s) == InsertionSortDesc(<<>>, s)

\* The two lists after "for processor in range(n): append".  range(n) is
\* empty for n <= 0.
EmptyLoads(n) == [k \in 1..n |-> 0]

EmptyBins(n) == [k \in 1..n |-> <<>>]

\* Mutant: the scan keeps the last processor of minimal load.
minloadproc_last(ld) ==
    LET minload == MinSeq(ld)
    IN  CHOOSE p \in 1..Len(ld) :
            /\ ld[p] = minload
            /\ \A q \in (p + 1)..Len(ld) : ld[q] # minload

\* LPT._minloadproc: min(loads), then the first index whose load equals it.
minloadproc(ld) ==
    LET minload == MinSeq(ld)
    IN  CHOOSE p \in 1..Len(ld) :
            /\ ld[p] = minload
            /\ \A q \in 1..(p - 1) : ld[q] # minload

\* Mutant: the load is overwritten instead of increased.
SetLoad(ld, p, job) == [ld EXCEPT ![p] = job]

\* loads[minloadproc] += job
AddLoad(ld, p, job) == [ld EXCEPT ![p] = @ + job]

\* Mutant: the bin is overwritten by the job instead of extended.
ReplaceJobs(bins, p, job) == [bins EXCEPT ![p] = <<job>>]

\* scheduled_jobs[minloadproc].append(job)
AppendJob(bins, p, job) == [bins EXCEPT ![p] = Append(@, job)]

\* int(ceil(total / maxjob)) for maxjob # 0, on exact values.
CeilDiv(total, maxjob) ==
    LET n == IF maxjob < 0 THEN 0 - total ELSE total
        d == IF maxjob < 0 THEN 0 - maxjob ELSE maxjob
    IN  0 - ((0 - n) \div d)

\* Mutant: the requested count is used whatever the ideal count is.
requested_processors(js, procs) == procs

\* OptimizedLPT._get_optimal_processors, where it raises nothing.
get_optimal_processors(js, procs) ==
    LET maxjob == MaxSeq(js)
        total  == SumSeq(js)
        ideal  == CeilDiv(total, maxjob)
    IN  IF ideal < procs THEN ideal ELSE procs

\* What _get_optimal_processors raises: max() of an empty list raises
\* ValueError, the float division total / 0.0 raises ZeroDivisionError.
get_optimal_processors_raises(js) ==
    IF js = <<>> THEN "ValueError"
    ELSE IF MaxSeq(js) = 0 THEN "ZeroDivisionError"
    ELSE "none"

\* Mutant: the padding loop runs one time too few.
PadShort(s, diff, x) == s \o [k \in 1..(diff - 1) |-> x]

\* "for item in range(diff): s.append(x)"; range(diff) is empty for diff <= 0.
Pad(s, diff, x) == s \o [k \in 1..diff |-> x]

\* ------------------------------------------------------------------ inputs
RECURSIVE SeqsUpTo(_, _)
SeqsUpTo(S, n) ==
    IF n = 0 THEN {<<>>}
    ELSE LET shorter == SeqsUpTo(S, n - 1)
         IN  shorter \cup {Append(s, x) : s \in {t \in shorter : Len(t) = n - 1}, x \in S}

\* The job lists of the demonstration drivers that fit a model run.
test_lpt_zero_jobs == <<3, 1, 6, 4, 5, 2>>

JobLists == SeqsUpTo((0 - NegJob)..MaxJob, MaxLen) \cup {test_lpt_zero_jobs}

ProcessorCounts == (0 - 1)..MaxProc

BoundJobLists == SeqsUpTo(1..BoundJob, BoundLen)

BoundProcessorCounts == 1..BoundProc

\* ------------------------------------------------------------------- state
Start(o, js, procs) ==
    /\ op = o
    /\ jobs = js
    /\ processors = procs
    /\ pc = "call"
    /\ lpt_processors = 0
    /\ optimal_processors = 0
    /\ sorted_jobs = <<>>
    /\ loads = <<>>
    /\ scheduled_jobs = <<>>
    /\ done_jobs = 0
    /\ raised = "none"

Init ==
    \E o \in {"lpt", "opt"}, js \in JobLists, procs \in ProcessorCounts :
        Start(o, js, procs)

InitBound ==
    \E js \in BoundJobLists, procs \in BoundProcessorCounts :
        Start("lpt", js, procs)

\* ----------------------------------------------------------------- actions
\* LPT(jobs, processors).run() called by the driver.
lpt_run ==
    /\ pc = "call"
    /\ op = "lpt"
    /\ lpt_processors' = processors
    /\ pc' = "lpt"
    /\ UNCHANGED <<op, jobs, processors, optimal_processors, sorted_jobs,
                   loads, scheduled_jobs, done_jobs, raised>>

\* OptimizedLPT.run up to lpt.run(): the optimal count, then LPT(jobs, it).
opt_run ==
    /\ pc = "call"
    /\ op = "opt"
    /\ get_optimal_processors_raises(jobs) = "none"
    /\ optimal_processors' = get_optimal_processors(jobs, processors)
    /\ lpt_processors' = optimal_processors'
    /\ pc' = "lpt"
    /\ UNCHANGED <<op, jobs, processors, sorted_jobs, loads, scheduled_jobs,
                   done_jobs, raised>>

\* OptimizedLPT.run ended by an exception of _get_optimal_processors.
opt_run_raises ==
    /\ pc = "call"
    /\ op = "opt"
    /\ get_optimal_processors_raises(jobs) # "none"
    /\ raised' = get_optimal_processors_raises(jobs)
    /\ pc' = "error"
    /\ UNCHANGED <<op, jobs, processors, lpt_processors, optimal_processors,
                   sorted_jobs, loads, scheduled_jobs, done_jobs>>

\* lpt_algorithm, steps 1 to 3.
lpt_algorithm_begin ==
    /\ pc = "lpt"
    /\ sorted_jobs' = SortedReverse(jobs)
    /\ loads' = EmptyLoads(lpt_processors)
    /\ scheduled_jobs' = EmptyBins(lpt_processors)
    /\ done_jobs' = 0
    /\ pc' = "loop"
    /\ UNCHANGED <<op, jobs, processors, lpt_processors, optimal_processors,
                   raised>>

\* lpt_algorithm, step 4: one iteration of "for job in sorted_jobs".
lpt_algorithm_assign ==
    /\ pc = "loop"
    /\ done_jobs < Len(sorted_jobs)
    /\ loads # <<>>
    /\ LET job == sorted_jobs[done_jobs + 1]
           p   == minloadproc(loads)
       IN  /\ scheduled_jobs' = AppendJob(scheduled_jobs, p, job)
           /\ loads' = AddLoad(loads, p, job)
    /\ done_jobs' = done_jobs + 1
    /\ UNCHANGED <<op, jobs, processors, pc, lpt_processors,
                   optimal_processors, sorted_jobs, raised>>

\* min(loads) of an empty list raises ValueError.
lpt_algorithm_raises ==
    /\ pc = "loop"
    /\ done_jobs < Len(sorted_jobs)
    /\ loads = <<>>
    /\ raised' = "ValueError"
    /\ pc' = "error"
    /\ UNCHANGED <<op, jobs, processors, lpt_processors, optimal_processors,
                   sorted_jobs, loads, scheduled_jobs, done_jobs>>

\* "return scheduled_jobs, loads", to the driver or to OptimizedLPT.run.
lpt_algorithm_return ==
    /\ pc = "loop"
    /\ done_jobs = Len(sorted_jobs)
    /\ pc' = IF op = "lpt" THEN "done" ELSE "pad"
    /\ UNCHANGED <<op, jobs, processors, lpt_processors, optimal_processors,
                   sorted_jobs, loads, scheduled_jobs, done_jobs, raised>>

\* OptimizedLPT.run after lpt.run(): pad to the requested count and return.
opt_pad ==
    /\ pc = "pad"
    /\ LET diff == processors - optimal_processors
       IN  /\ scheduled_jobs' = Pad(scheduled_jobs, diff, <<>>)
           /\ loads' = Pad(loads, diff, 0)
    /\ pc' = "done"
    /\ UNCHANGED <<op, jobs, processors, lpt_processors, optimal_processors,
                   sorted_jobs, done_jobs, raised>>

Next ==
    \/ lpt_run
    \/ opt_run
    \/ opt_run_raises
    \/ lpt_algorithm_begin
    \/ lpt_algorithm_assign
    \/ lpt_algorithm_raises
    \/ lpt_algorithm_return
    \/ opt_pad

Spec == Init /\ [][Next]_vars

\* LPT.run alone, on positive jobs and at least one processor.
NextBound ==
    \/ lpt_run
    \/ lpt_algorithm_begin
    \/ lpt_algorithm_assign
    \/ lpt_algorithm_return

SpecBound == InitBound /\ [][NextBound]_vars

\* ------------------------------------------------- vocabulary of the claims
\* The invocation has returned (scheduled_jobs, loads) to its caller.
Returned == pc = "done"

NonNegativeJobs == \A k \in 1..Len(jobs) : jobs[k] >= 0

\* Valid input of Schedule (LPT.run).
ValidSchedule == op = "lpt" /\ processors >= 1 /\ NonNegativeJobs

\* Valid input of ScheduleOptimized (OptimizedLPT.run).
ValidOptimized ==
    op = "opt" /\ processors >= 1 /\ NonNegativeJobs /\ jobs # <<>>

\* The lists exist from the start of the scheduling loop on.
Scheduling == pc \in {"loop", "pad", "done"}

Range(s) == {s[k] : k \in 1..Len(s)}

\* How often x occurs in s.
Count(x, s) == Cardinality({k \in 1..Len(s) : s[k] = x})

RECURSIVE Concat(_)
\* All bins, one after the other.
Concat(bins) == IF bins = <<>> THEN <<>> ELSE Head(bins) \o Concat(Tail(bins))

NonEmptyBins == {b \in 1..Len(scheduled_jobs) : scheduled_jobs[b] # <<>>}

NonIncreasing(s) == \A k \in 1..(Len(s) - 1) : s[k] >= s[k + 1]

\* --- brute force of the optimal makespan
RECURSIVE BinTotal(_, _, _, _)
\* Total of the jobs js[1..k] that assignment f puts on bin b.
BinTotal(js, f, b, k) ==
    IF k = 0 THEN 0
    ELSE (IF f[k] = b THEN js[k] ELSE 0) + BinTotal(js, f, b, k - 1)

\* The largest bin total of assignment f, for m >= 1 bins.
MakespanOf(js, f, m) ==
    LET totals == {BinTotal(js, f, b, Len(js)) : b \in 1..m}
    IN  CHOOSE x \in totals : \A y \in totals : y <= x

\* The least makespan over all assignments of the jobs to m bins.
OptimalMakespan(js, m) ==
    LET spans == {MakespanOf(js, f, m) : f \in [1..Len(js) -> 1..m]}
    IN  CHOOSE x \in spans : \A y \in spans : x <= y

\* ------------------------------------------------------------------ claims

\* C1. Load conservation: on valid input the returned loads add up to the
\* total of the job lengths, for LPT.run and, after the padding, for
\* OptimizedLPT.run.
C1_LoadConservation ==
    (Returned /\ (ValidSchedule \/ ValidOptimized))
        => SumSeq(loads) = SumSeq(jobs)

\* An optimized run that returned padded lists carrying several jobs.
C1_Witness ==
    /\ Returned
    /\ ValidOptimized
    /\ optimal_processors < processors
    /\ Len(jobs) >= 3
    /\ SumSeq(jobs) >= 4

\* C2. Job conservation: on valid input the returned bins hold, together,
\* every job length exactly as often as the input does.
C2_JobConservation ==
    (Returned /\ (ValidSchedule \/ ValidOptimized))
        => /\ Len(Concat(scheduled_jobs)) = Len(jobs)
           /\ \A x \in Range(jobs) \cup Range(Concat(scheduled_jobs)) :
                  Count(x, Concat(scheduled_jobs)) = Count(x, jobs)

\* A plain run that returned a job list with a repeated length spread over
\* two bins.
C2_Witness ==
    /\ Returned
    /\ ValidSchedule
    /\ \E x \in Range(jobs) : Count(x, jobs) >= 2
    /\ Cardinality(NonEmptyBins) >= 2
    /\ Cardinality(Range(jobs)) >= 2

\* C3. Bin count: on valid input the returned bins and the returned loads
\* both have exactly the requested number of entries.
C3_BinCount ==
    (Returned /\ (ValidSchedule \/ ValidOptimized))
        => /\ Len(scheduled_jobs) = processors
           /\ Len(loads) = processors

\* An optimized run that scheduled on fewer processors than requested.
C3_Witness ==
    /\ Returned
    /\ ValidOptimized
    /\ optimal_processors < processors
    /\ optimal_processors >= 2

\* C4. In the result of OptimizedLPT.run on a non-empty job list and at
\* least one processor, at most ceil(sum(jobs) / max(jobs)) bins are
\* non-empty, and no empty bin comes before a non-empty one.
C4_IdleAtTail ==
    (Returned /\ op = "opt" /\ jobs # <<>> /\ processors >= 1)
        => /\ Cardinality(NonEmptyBins)
                  <= CeilDiv(SumSeq(jobs), MaxSeq(jobs))
           /\ \A a, b \in 1..Len(scheduled_jobs) :
                  (a < b /\ scheduled_jobs[a] = <<>>)
                      => scheduled_jobs[b] = <<>>

\* An optimized run that returned both working and idle processors.
C4_Witness ==
    /\ Returned
    /\ op = "opt"
    /\ Cardinality(NonEmptyBins) >= 2
    /\ scheduled_jobs[Len(scheduled_jobs)] = <<>>

\* C5. Approximation bound: for positive jobs and m >= 1 processors the
\* makespan of LPT.run is at most (4/3 - 1/(3m)) times the optimal makespan:
\* 3 * m * max(loads) <= (4 * m - 1) * OPT.
C5_ApproximationBound ==
    (Returned /\ op = "lpt")
        => 3 * processors * MaxSeq(loads)
               <= (4 * processors - 1) * OptimalMakespan(jobs, processors)

\* A run on which LPT is not optimal and meets the bound with equality.
C5_Witness ==
    /\ Returned
    /\ op = "lpt"
    /\ MaxSeq(loads) > OptimalMakespan(jobs, processors)
    /\ 3 * processors * MaxSeq(loads)
           = (4 * processors - 1) * OptimalMakespan(jobs, processors)

\* C6. LPT.run with fewer than one processor returns nothing.
C6_RejectsNoProcessors ==
    (op = "lpt" /\ processors < 1) => ~Returned

\* C7. A job list with a negative length is rejected: nothing is returned
\* for it, so no returned load is negative.
C7_RejectsNegativeJobs ==
    Returned => (NonNegativeJobs /\ \A b \in 1..Len(loads) : loads[b] >= 0)

\* C8. Greedy rule: the jobs are taken in non-increasing order, each goes to
\* a bin of minimal load, the lowest-indexed one on a tie; so [2,2,2] on 2
\* processors gives loads [4,2] and [3,1,6,4,5,2] on 2 gives [11,10].
C8_AssignStep ==
    (pc = "loop" /\ done_jobs' = done_jobs + 1)
        => \E p \in 1..Len(loads) :
               /\ \A q \in 1..Len(loads) : loads[p] <= loads[q]
               /\ \A q \in 1..(p - 1) : loads[q] > loads[p]
               /\ loads' = [loads EXCEPT ![p] = loads[p] + sorted_jobs[done_jobs']]
               /\ scheduled_jobs' =
                      [scheduled_jobs EXCEPT
                           ![p] = Append(scheduled_jobs[p], sorted_jobs[done_jobs'])]

C8_Scenarios ==
    (Returned /\ op = "lpt" /\ processors = 2)
        => /\ (jobs = <<2, 2, 2>> => loads = <<4, 2>>)
           /\ (jobs = <<3, 1, 6, 4, 5, 2>> => loads = <<11, 10>>)

C8_GreedyRule ==
    /\ [][C8_AssignStep]_vars
    /\ [](Scheduling => (NonIncreasing(sorted_jobs) /\ Len(sorted_jobs) = Len(jobs)))
    /\ []C8_Scenarios

\* A job has just been put on the first of two bins of equal load, after
\* the other bin had taken one.
C8_Witness ==
    /\ pc = "loop"
    /\ jobs = <<2, 2, 2>>
    /\ processors = 2
    /\ op = "lpt"
    /\ done_jobs = 3
    /\ scheduled_jobs = << <<2, 2>>, <<2>> >>

\* C9. Per-bin consistency: after every assignment and in the result, each
\* load is the total of the jobs in its bin.
C9_LoadsMatchBins ==
    Scheduling
        => /\ Len(loads) = Len(scheduled_jobs)
           /\ \A b \in 1..Len(loads) : loads[b] = SumSeq(scheduled_jobs[b])

\* In the middle of the loop, a bin holding two jobs of positive length.
C9_Witness ==
    /\ pc = "loop"
    /\ done_jobs < Len(sorted_jobs)
    /\ \E b \in 1..Len(loads) :
           Len(scheduled_jobs[b]) >= 2 /\ loads[b] >= 3

\* C10. Totality of OptimizedLPT.run: on a non-empty list of non-negative
\* jobs and at least one processor it raises nothing.
C10_OptimizedTotal ==
    ValidOptimized => raised = "none"

=============================================================================
